---- MODULE Spec2Model ----
(***************************************************************************)
(* netscan.py: discovery of live hosts in IPv4 ranges and probing of four  *)
(* services on the first three responders of each range.                   *)
(*                                                                         *)
(* Three specifications share the module:                                  *)
(*   Spec      main() in single subnet mode: scan_subnet() on one range    *)
(*             specification (sampling loop, service loop);                *)
(*   SpecMain  main() in file mode: scan_subnet() over a list of range     *)
(*             specifications of at most two host bits;                    *)
(*   SpecHttps one call of check_https_status(), receive by receive.       *)
(*                                                                         *)
(* Addresses are integers (int(IPv4Address)); a range specification is the *)
(* text "a.b.c.d/p" held as its dot-separated fields and its prefix field. *)
(* Bytes are integers 0..255, decoded text is a sequence of code points.   *)
(***************************************************************************)
EXTENDS Integers, Sequences, FiniteSets, TLC

VARIABLES
    \* ---- main / scan_subnet
    subnets,            \* main: the list read from the file (stripped, non-blank lines)
    si,                 \* main: number of list entries already handed to scan_subnet
    pc,                 \* position in main / scan_subnet
    network,            \* scan_subnet: the parsed network
    idx,                \* scan_subnet: enumerate() index of the next element of hosts()
    responsive_hosts,   \* scan_subnet: the responder list
    hi,                 \* scan_subnet: number of responders already service-probed
    https_code, rdp_ok, fs_ok, ssh_ok,   \* scan_subnet: locals of the service loop
    answers,            \* what the network answered to the current host's service probes
    pinged,             \* addresses handed to ping_host in the current range scan
    ping_answer,        \* what the ping command did on the latest of them
    probes,             \* <<address, port>> handed to a service probe in the current range scan
    reports,            \* Host Reports printed in the current range scan
    output,             \* the kind of every range-level line printed so far, with its list index
    exit_status,        \* process exit status (-1 while running)
    \* ---- check_https_status
    hpc,                \* position in check_https_status
    session,            \* what the peer does: connect, handshake, send, end of stream
    stream,             \* bytes the peer has still to deliver
    data,               \* check_https_status: the accumulated buffer
    chunk,              \* check_https_status: the value of the latest recv
    nrecv,              \* number of recv calls issued
    exc,                \* the exception caught by check_https_status ("none" if none)
    result              \* the value returned by check_https_status

scanVars == <<subnets, si, pc, network, idx, responsive_hosts, hi, https_code,
              rdp_ok, fs_ok, ssh_ok, answers, pinged, ping_answer, probes, reports,
              output, exit_status>>
httpsVars == <<hpc, session, stream, data, chunk, nrecv, exc, result>>
vars == <<scanVars, httpsVars>>

\* ------------------------------------------------------------------ bounds
\* Ranges of the model have at most MaxHostBits host bits (prefix >= 32 - MaxHostBits).
MaxHostBits == 3
\* The list of range specifications has at most MaxSubnets entries.
MaxSubnets == 2
\* A status token of a modelled response has at most MaxTokLen pieces.
MaxTokLen == 3
\* A recv returns at most MaxChunk bytes, or everything that is left.
MaxChunk == 1

\* ------------------------------------------------------------------ helpers
RECURSIVE Pow2(_)
Pow2(n) == IF n = 0 THEN 1 ELSE 2 * Pow2(n - 1)

Min(a, b) == IF a < b THEN a ELSE b

\* The value of a probe that returned v, and of one that raised.
Returned(v) == [raised |-> FALSE, value |-> v]

\* check_https_status's two kinds of result: None and an integer.
None == [present |-> FALSE, code |-> 0]
Status(n) == [present |-> TRUE, code |-> n]

\* ------------------------------------------------------------------ ipaddress
\* int(IPv4Address("a.b.c.d"))
AddrInt(o) == ((o[1] * 256 + o[2]) * 256 + o[3]) * 256 + o[4]

\* ipaddress accepts the text iff it has four decimal fields 0..255 and a
\* prefix length 0..32; anything else raises ValueError.
ValidSpec(cidr) ==
    /\ Len(cidr.octets) = 4
    /\ \A i \in 1..Len(cidr.octets) : cidr.octets[i] \in 0..255
    /\ cidr.prefix \in 0..32

NoNetwork == [network_address |-> 0, prefixlen |-> 32]

\* ipaddress.ip_network(cidr, strict=False): host bits are masked off.
ip_network(cidr) ==
    IF ValidSpec(cidr)
    THEN LET packed == AddrInt(cidr.octets)
             size == Pow2(32 - cidr.prefix)
         IN  [raised |-> FALSE,
              value |-> [network_address |-> packed - (packed % size),
                         prefixlen |-> cidr.prefix]]
    ELSE [raised |-> TRUE, value |-> NoNetwork]

\* The ValueError is not caught: it leaves scan_subnet.
try_ip_network_uncaught(cidr) ==
    LET r == ip_network(cidr)
    IN  [error |-> FALSE, raised |-> r.raised, value |-> r.value]

\* `try: network = ip_network(...)  except ValueError as e: print(...); return`:
\* the ValueError becomes the error report, and nothing is raised.
try_ip_network(cidr) ==
    LET r == ip_network(cidr)
    IN  [error |-> r.raised, raised |-> FALSE, value |-> r.value]

broadcast_address(net) == net.network_address + Pow2(32 - net.prefixlen) - 1

\* IPv4Network.hosts(): a /31 yields both its addresses, a /32 its single
\* address, any other network everything between network and broadcast.
hosts(net) ==
    IF net.prefixlen = 31
    THEN <<net.network_address, net.network_address + 1>>
    ELSE IF net.prefixlen = 32
    THEN <<net.network_address>>
    ELSE [i \in 1..(broadcast_address(net) - net.network_address - 1) |->
              net.network_address + i]

\* ------------------------------------------------------------------ probes
RaisedBool == [raised |-> TRUE, value |-> FALSE]
RaisedStatus == [raised |-> TRUE, value |-> None]

\* What running the ping command can do: exit with status 0, 1 (no reply),
\* 2 (error), or fail to start (OSError from subprocess.run).
PingAnswers == {"exit0", "exit1", "exit2", "oserror"}

\* ping_host without its try/except: a command that cannot start raises.
ping_host_unguarded(answer) ==
    IF answer = "oserror" THEN RaisedBool ELSE Returned(answer = "exit0")

\* ping_host(ip): True iff the command ran and exited 0; never raises.
ping_host(answer) ==
    IF answer = "oserror" THEN Returned(FALSE) ELSE Returned(answer = "exit0")

\* What socket.create_connection can do.
TcpAnswers == {"connected", "refused", "timeout"}

\* check_tcp without its try/except: a failed connection raises.
check_tcp_unguarded(answer) ==
    IF answer = "connected" THEN Returned(TRUE) ELSE RaisedBool

\* check_tcp(ip, port): True iff the connection was made; never raises.
check_tcp(answer) ==
    IF answer = "connected" THEN Returned(TRUE) ELSE Returned(FALSE)

\* ------------------------------------------------------------------ bytes and text
CRLF == <<13, 10>>
HTTP_SLASH == <<72, 84, 84, 80, 47>>

\* sub in s  (bytes)
Contains(s, sub) ==
    \E i \in 1..(Len(s) - Len(sub) + 1) : SubSeq(s, i, i + Len(sub) - 1) = sub

\* Position of the first occurrence of sub in s, 0 if there is none.
Find(s, sub) ==
    IF Contains(s, sub)
    THEN CHOOSE i \in 1..(Len(s) - Len(sub) + 1) :
            /\ SubSeq(s, i, i + Len(sub) - 1) = sub
            /\ \A j \in 1..(i - 1) : SubSeq(s, j, j + Len(sub) - 1) # sub
    ELSE 0

\* data.split(b"\r\n", 1)[0]
first_line_bytes(d) ==
    IF Contains(d, CRLF) THEN SubSeq(d, 1, Find(d, CRLF) - 1) ELSE d

IsCont(b) == b \in 128..191

\* Length of the well-formed UTF-8 sequence that starts at s[i], 0 if none does.
Utf8Len(s, i) ==
    LET b == s[i]
        n == Len(s) - i + 1
        c(k) == s[i + k]
    IN  IF b <= 127 THEN 1
        ELSE IF b \in 194..223
        THEN IF n >= 2 /\ IsCont(c(1)) THEN 2 ELSE 0
        ELSE IF b \in 224..239
        THEN IF /\ n >= 3
                /\ IsCont(c(1)) /\ IsCont(c(2))
                /\ (b = 224 => c(1) >= 160)
                /\ (b = 237 => c(1) <= 159)
             THEN 3 ELSE 0
        ELSE IF b \in 240..244
        THEN IF /\ n >= 4
                /\ IsCont(c(1)) /\ IsCont(c(2)) /\ IsCont(c(3))
                /\ (b = 240 => c(1) >= 144)
                /\ (b = 244 => c(1) <= 143)
             THEN 4 ELSE 0
        ELSE 0

\* The code point of the well-formed sequence of length k at s[i].
Utf8Point(s, i, k) ==
    IF k = 1 THEN s[i]
    ELSE IF k = 2 THEN (s[i] - 192) * 64 + (s[i + 1] - 128)
    ELSE IF k = 3
    THEN (s[i] - 224) * 4096 + (s[i + 1] - 128) * 64 + (s[i + 2] - 128)
    ELSE (s[i] - 240) * 262144 + (s[i + 1] - 128) * 4096
         + (s[i + 2] - 128) * 64 + (s[i + 3] - 128)

\* Length of the maximal ill-formed subpart that starts at s[i], where no
\* well-formed sequence starts: the lead byte and the continuation bytes
\* that a well-formed sequence could have had after it.
Utf8BadLen(s, i) ==
    LET b == s[i]
        n == Len(s) - i + 1
        c(k) == s[i + k]
        second == /\ n >= 2
                  /\ IsCont(c(1))
                  /\ (b = 224 => c(1) >= 160)
                  /\ (b = 237 => c(1) <= 159)
                  /\ (b = 240 => c(1) >= 144)
                  /\ (b = 244 => c(1) <= 143)
    IN  IF b \in 224..239 THEN (IF second THEN 2 ELSE 1)
        ELSE IF b \in 240..244
        THEN (IF ~second THEN 1 ELSE IF n >= 3 /\ IsCont(c(2)) THEN 3 ELSE 2)
        ELSE 1

\* bytes.decode(errors="replace"): each maximal ill-formed subpart becomes
\* one U+FFFD. (Not what the program calls: the decoding the program would
\* do with errors="replace" in place of errors="ignore".)
RECURSIVE decode_replace_from(_, _)
decode_replace_from(s, i) ==
    IF i > Len(s) THEN <<>>
    ELSE LET k == Utf8Len(s, i)
         IN  IF k = 0
             THEN <<65533>> \o decode_replace_from(s, i + Utf8BadLen(s, i))
             ELSE <<Utf8Point(s, i, k)>> \o decode_replace_from(s, i + k)

decode_replace(s) == decode_replace_from(s, 1)

\* bytes.decode(errors="ignore"): UTF-8, every undecodable byte is dropped.
RECURSIVE decode_ignore_from(_, _)
decode_ignore_from(s, i) ==
    IF i > Len(s) THEN <<>>
    ELSE LET k == Utf8Len(s, i)
         IN  IF k = 0 THEN decode_ignore_from(s, i + 1)
             ELSE <<Utf8Point(s, i, k)>> \o decode_ignore_from(s, i + k)

decode_ignore(s) == decode_ignore_from(s, 1)

\* str.isspace() of one code point
IsSpace(c) ==
    \/ c \in 9..13
    \/ c \in 28..32
    \/ c \in {133, 160, 5760, 8232, 8233, 8239, 8287, 12288}
    \/ c \in 8192..8202

\* str.split(): the maximal runs of non-whitespace, in order.
RECURSIVE split_from(_, _, _)
split_from(s, i, cur) ==
    IF i > Len(s) THEN (IF cur = <<>> THEN <<>> ELSE <<cur>>)
    ELSE IF IsSpace(s[i])
    THEN (IF cur = <<>> THEN <<>> ELSE <<cur>>) \o split_from(s, i + 1, <<>>)
    ELSE split_from(s, i + 1, Append(cur, s[i]))

split(s) == split_from(s, 1, <<>>)

\* str.startswith
startswith(s, prefix) ==
    Len(s) >= Len(prefix) /\ SubSeq(s, 1, Len(prefix)) = prefix

\* The zero of every run of ten decimal digits of Unicode 14 (category Nd):
\* int() takes the digits of all of them.
DigitZeros ==
    {48, 1632, 1776, 1984, 2406, 2534, 2662, 2790, 2918, 3046, 3174, 3302,
     3430, 3558, 3664, 3792, 3872, 4160, 4240, 6112, 6160, 6470, 6608, 6784,
     6800, 6992, 7088, 7232, 7248, 42528, 43216, 43264, 43472, 43504, 43600,
     44016, 65296, 66720, 68912, 69734, 69872, 69942, 70096, 70384, 70736,
     70864, 71248, 71360, 71472, 71904, 72016, 72784, 73040, 73120, 92768,
     92864, 93008, 120782, 120792, 120802, 120812, 120822, 123200, 123632,
     125264, 130032}

\* c is a decimal digit
IsDigit(c) == c \in 48..57 \/ (c > 127 /\ \E z \in DigitZeros : c \in z..(z + 9))

\* The value of the decimal digit c.
DigitOf(c) == c - (CHOOSE z \in DigitZeros : c \in z..(z + 9))

\* The white space int() strips from both ends of its argument: the ASCII
\* one, and every space beyond ASCII.
IsIntSpace(c) == c \in 9..13 \/ c = 32 \/ (c > 127 /\ IsSpace(c))

RECURSIVE IntStrip(_)
IntStrip(t) ==
    IF t = <<>> THEN t
    ELSE IF IsIntSpace(t[1]) THEN IntStrip(Tail(t))
    ELSE IF IsIntSpace(t[Len(t)]) THEN IntStrip(SubSeq(t, 1, Len(t) - 1))
    ELSE t

\* The digits of int()'s argument after its sign.
IntBody(t) ==
    LET u == IntStrip(t)
    IN  IF u # <<>> /\ u[1] \in {43, 45} THEN Tail(u) ELSE u

\* sys.get_int_max_str_digits(): int() refuses a text of more digits.
int_max_str_digits == 4300

\* int(t) accepts an optional sign and decimal digits, single underscores
\* allowed between digits, at most int_max_str_digits digits.
IsIntLiteral(t) ==
    LET b == IntBody(t)
    IN  /\ b # <<>>
        /\ IsDigit(b[1]) /\ IsDigit(b[Len(b)])
        /\ \A i \in 1..Len(b) : IsDigit(b[i]) \/ b[i] = 95
        /\ \A i \in 1..(Len(b) - 1) : ~(b[i] = 95 /\ b[i + 1] = 95)
        /\ Cardinality({i \in 1..Len(b) : IsDigit(b[i])}) <= int_max_str_digits

RECURSIVE DigitsValue(_, _)
DigitsValue(b, acc) ==
    IF b = <<>> THEN acc
    ELSE IF Head(b) = 95 THEN DigitsValue(Tail(b), acc)
    ELSE DigitsValue(Tail(b), acc * 10 + DigitOf(Head(b)))

IntValue(t) ==
    IF IntStrip(t)[1] = 45 THEN 0 - DigitsValue(IntBody(t), 0)
    ELSE DigitsValue(IntBody(t), 0)

\* int(t): the value, or ValueError.
int(t) == IF IsIntLiteral(t) THEN Returned(Status(IntValue(t))) ELSE RaisedStatus

\* ------------------------------------------------------------------ check_https_status
\* The loop waits for the blank line that ends the headers.
loop_test_blank_line(d) == ~Contains(d, CRLF \o CRLF)

\* `while b"\r\n" not in data`
loop_test(d) == ~Contains(d, CRLF)

\* `.decode(errors="ignore")`
decode(s) == decode_ignore(s)

\* The test of the first token is missing.
is_status_line_any_prefix(parts) == Len(parts) >= 2

\* `len(parts) >= 2 and parts[0].startswith("HTTP/")`
is_status_line(parts) == Len(parts) >= 2 /\ startswith(parts[1], HTTP_SLASH)

\* Lines 51-58: the value returned for the accumulated buffer, or the
\* ValueError of int().
parse_status(d) ==
    IF d = <<>> THEN Returned(None)
    ELSE LET first_line == decode(first_line_bytes(d))
             parts == split(first_line)
         IN  IF is_status_line(parts) THEN int(parts[2]) ELSE Returned(None)

\* `except Exception: return None`
except_Exception(r) == IF r.raised THEN Returned(None) ELSE r

\* The receive loop over the values recv returns one after another; when the
\* peer has nothing left it closes (recv returns b"") or stalls (timeout).
RECURSIVE recv_loop(_, _, _)
recv_loop(d, chunks, end) ==
    IF ~loop_test(d) THEN Returned(d)
    ELSE IF chunks = <<>>
    THEN (IF end = "timeout" THEN [raised |-> TRUE, value |-> d] ELSE Returned(d))
    ELSE IF Head(chunks) = <<>> THEN Returned(d)
    ELSE recv_loop(d \o Head(chunks), Tail(chunks), end)

\* The body of the try block for a peer that behaves as sess says.
https_try(sess) ==
    IF sess.connect # "connected" THEN RaisedStatus
    ELSE IF sess.handshake # "ok" THEN RaisedStatus
    ELSE IF sess.send # "ok" THEN RaisedStatus
    ELSE LET got == recv_loop(<<>>, sess.chunks, sess.end)
         IN  IF got.raised THEN RaisedStatus ELSE parse_status(got.value)

\* check_https_status(ip)
check_https_status(sess) == except_Exception(https_try(sess))

\* ------------------------------------------------------------------ the network of the model
\* The peers a host can be on port 443, by name.
HttpsPeers == {"refused", "tls_fail", "banner", "ok200"}

\* "HTTP/1.1 200 OK\r\n" and "SSH-2.0\r\n"
Line200 == <<72, 84, 84, 80, 47, 49, 46, 49, 32, 50, 48, 48, 32, 79, 75, 13, 10>>
Banner == <<83, 83, 72, 45, 50, 46, 48, 13, 10>>

PeerSession(name) ==
    [connect |-> IF name = "refused" THEN "refused" ELSE "connected",
     handshake |-> IF name = "tls_fail" THEN "cert_verify_failed" ELSE "ok",
     send |-> "ok",
     chunks |-> IF name = "ok200" THEN <<SubSeq(Line200, 1, 16), <<10>>>>
                ELSE IF name = "banner" THEN <<Banner>>
                ELSE <<>>,
     end |-> "close"]

\* The range specifications of the model: 10.0.0.5/p for every modelled
\* prefix length (host bits set, masked off by strict=False), and texts that
\* do not parse: "10.0.0.5/33" and "not-a-cidr" (no dotted quad at all).
SpecPool ==
    {[octets |-> <<10, 0, 0, 5>>, prefix |-> p] : p \in (32 - MaxHostBits)..33}
    \cup {[octets |-> <<>>, prefix |-> 32]}

\* The specifications of a list: those of at most two host bits, and the
\* texts that do not parse.
ListPool == {c \in SpecPool : c.prefix >= 30}

SubnetLists == UNION {[1..n -> ListPool] : n \in 1..MaxSubnets}

\* ------------------------------------------------------------------ main / scan_subnet
Unset == [h |-> "unset", r |-> "unset", f |-> "unset", s |-> "unset"]

IdleSession ==
    [connect |-> "connected", handshake |-> "ok", send |-> "ok", end |-> "close"]

InitHttpsIdle ==
    /\ hpc = "idle"
    /\ session = IdleSession
    /\ stream = <<>>
    /\ data = <<>>
    /\ chunk = <<>>
    /\ nrecv = 0
    /\ exc = "none"
    /\ result = Returned(None)

InitScan(lists) ==
    /\ subnets \in lists
    /\ si = 0
    /\ pc = "main"
    /\ network = NoNetwork
    /\ idx = 0
    /\ responsive_hosts = <<>>
    /\ hi = 0
    /\ https_code = None
    /\ rdp_ok = FALSE
    /\ fs_ok = FALSE
    /\ ssh_ok = FALSE
    /\ answers = Unset
    /\ pinged = <<>>
    /\ ping_answer = "none"
    /\ probes = <<>>
    /\ reports = <<>>
    /\ output = <<>>
    /\ exit_status = -1
    /\ InitHttpsIdle

\* main() in single subnet mode (-n): one range specification.
Init == InitScan({<<c>> : c \in SpecPool})

\* main() in file mode (-f), after the list has been read.
InitMain == InitScan(SubnetLists)

Say(kind) == output' = Append(output, [kind |-> kind, i |-> si])

\* The locals of one service-loop iteration before it starts.
FreshLocals ==
    /\ https_code' = None
    /\ rdp_ok' = FALSE
    /\ fs_ok' = FALSE
    /\ ssh_ok' = FALSE
    /\ answers' = Unset

\* `for subnet in subnets: scan_subnet(subnet)`: the call, up to the start of
\* the sampling loop; a specification that does not parse is reported and
\* scan_subnet returns.
ScanBegin ==
    /\ pc = "main"
    /\ si < Len(subnets)
    /\ LET parsed == try_ip_network(subnets[si + 1])
       IN  /\ si' = si + 1
           /\ pinged' = <<>>
           /\ ping_answer' = "none"
           /\ probes' = <<>>
           /\ reports' = <<>>
           /\ responsive_hosts' = <<>>
           /\ idx' = 0
           /\ hi' = 0
           /\ network' = parsed.value
           /\ exit_status' = IF parsed.raised THEN 1 ELSE exit_status
           /\ IF parsed.raised
              THEN /\ UNCHANGED output
                   /\ pc' = "traceback"
              ELSE IF parsed.error
              THEN /\ output' = Append(output, [kind |-> "error", i |-> si + 1])
                   /\ pc' = "main"
              ELSE /\ output' = Append(output, [kind |-> "scanning", i |-> si + 1])
                   /\ pc' = "loop"
    /\ UNCHANGED <<subnets, https_code, rdp_ok, fs_ok, ssh_ok, answers,
                   httpsVars>>

\* The first usable host is not skipped.
is_skipped_none(i) == FALSE

\* `if idx == 0`
is_skipped(i) == i = 0

\* `if idx == 0: continue`
LoopSkipFirst ==
    /\ pc = "loop"
    /\ idx < Len(hosts(network))
    /\ is_skipped(idx)
    /\ idx' = idx + 1
    /\ UNCHANGED <<subnets, si, pc, network, responsive_hosts, hi, https_code,
                   rdp_ok, fs_ok, ssh_ok, answers, pinged, ping_answer, probes,
                   reports,
                   output, exit_status, httpsVars>>

\* One iteration of the sampling loop on a candidate: ping it, keep it if it
\* answered, leave the loop at the max_hosts-th responder.
max_hosts == 3

\* `>` written for `>=`: the loop goes on after the third responder.
reached_max_off_by_one(found) == Len(found) > max_hosts

\* The break is missing: the loop only ends with the range.
reached_max_never(found) == FALSE

\* `if len(responsive_hosts) >= max_hosts`
reached_max(found) == Len(found) >= max_hosts

LoopProbe ==
    /\ pc = "loop"
    /\ idx < Len(hosts(network))
    /\ ~is_skipped(idx)
    /\ \E answer \in PingAnswers :
          LET ip == hosts(network)[idx + 1]
              alive == ping_host(answer)
          IN  /\ pinged' = Append(pinged, ip)
              /\ ping_answer' = answer
              /\ idx' = idx + 1
              /\ IF alive.raised
                 THEN /\ pc' = "traceback"
                      /\ exit_status' = 1
                      /\ UNCHANGED responsive_hosts
                 ELSE /\ UNCHANGED exit_status
                      /\ IF alive.value
                         THEN /\ responsive_hosts' = Append(responsive_hosts, ip)
                              /\ pc' = IF reached_max(responsive_hosts')
                                       THEN "sampled" ELSE "loop"
                         ELSE /\ UNCHANGED responsive_hosts
                              /\ pc' = "loop"
    /\ UNCHANGED <<subnets, si, network, hi, https_code, rdp_ok, fs_ok, ssh_ok,
                   answers, probes, reports, output, httpsVars>>

\* hosts() is exhausted: the loop ends.
LoopExhausted ==
    /\ pc = "loop"
    /\ idx >= Len(hosts(network))
    /\ pc' = "sampled"
    /\ UNCHANGED <<subnets, si, network, idx, responsive_hosts, hi, https_code,
                   rdp_ok, fs_ok, ssh_ok, answers, pinged, ping_answer, probes,
                   reports,
                   output, exit_status, httpsVars>>

\* The sample is tested for being full instead of being empty.
none_responded_unless_full(found) == Len(found) < max_hosts

\* `if not responsive_hosts`
none_responded(found) == found = <<>>

\* `if not responsive_hosts: print("No hosts responded to ping."); return`
NoHosts ==
    /\ pc = "sampled"
    /\ none_responded(responsive_hosts)
    /\ Say("no_hosts")
    /\ pc' = "main"
    /\ UNCHANGED <<subnets, si, network, idx, responsive_hosts, hi, https_code,
                   rdp_ok, fs_ok, ssh_ok, answers, pinged, ping_answer, probes,
                   reports,
                   exit_status, httpsVars>>

\* The header of the service checks; the service loop starts.
ServiceHeader ==
    /\ pc = "sampled"
    /\ ~none_responded(responsive_hosts)
    /\ Say("header")
    /\ pc' = "svc"
    /\ hi' = 0
    /\ UNCHANGED <<subnets, si, network, idx, responsive_hosts, https_code,
                   rdp_ok, fs_ok, ssh_ok, answers, pinged, ping_answer, probes,
                   reports,
                   exit_status, httpsVars>>

\* Where a service check continues: at `next` if it returned, with a
\* traceback if it raised.
AfterCheck(r, next) ==
    /\ pc' = IF r.raised THEN "traceback" ELSE next
    /\ exit_status' = IF r.raised THEN 1 ELSE exit_status

\* `https_code = check_https_status(ip)`
CheckHttps ==
    /\ pc = "svc"
    /\ hi < Len(responsive_hosts)
    /\ \E peer \in HttpsPeers :
          LET r == check_https_status(PeerSession(peer))
          IN  /\ answers' = [Unset EXCEPT !.h = peer]
              /\ probes' = Append(probes, <<responsive_hosts[hi + 1], 443>>)
              /\ https_code' = r.value
              /\ AfterCheck(r, "rdp")
    /\ UNCHANGED <<subnets, si, network, idx, responsive_hosts, hi, rdp_ok,
                   fs_ok, ssh_ok, pinged, ping_answer, reports, output, httpsVars>>

\* `rdp_ok = check_tcp(ip, 3389)`
CheckRdp ==
    /\ pc = "rdp"
    /\ \E answer \in TcpAnswers :
          LET r == check_tcp(answer)
          IN  /\ answers' = [answers EXCEPT !.r = answer]
              /\ probes' = Append(probes, <<responsive_hosts[hi + 1], 3389>>)
              /\ rdp_ok' = r.value
              /\ AfterCheck(r, "fs")
    /\ UNCHANGED <<subnets, si, network, idx, responsive_hosts, hi, https_code,
                   fs_ok, ssh_ok, pinged, ping_answer, reports, output, httpsVars>>

\* `fs_ok = check_tcp(ip, 445)`
CheckFs ==
    /\ pc = "fs"
    /\ \E answer \in TcpAnswers :
          LET r == check_tcp(answer)
          IN  /\ answers' = [answers EXCEPT !.f = answer]
              /\ probes' = Append(probes, <<responsive_hosts[hi + 1], 445>>)
              /\ fs_ok' = r.value
              /\ AfterCheck(r, "ssh")
    /\ UNCHANGED <<subnets, si, network, idx, responsive_hosts, hi, https_code,
                   rdp_ok, ssh_ok, pinged, ping_answer, reports, output, httpsVars>>

\* `ssh_ok = check_tcp(ip, 22)`
CheckSsh ==
    /\ pc = "ssh"
    /\ \E answer \in TcpAnswers :
          LET r == check_tcp(answer)
          IN  /\ answers' = [answers EXCEPT !.s = answer]
              /\ probes' = Append(probes, <<responsive_hosts[hi + 1], 22>>)
              /\ ssh_ok' = r.value
              /\ AfterCheck(r, "print")
    /\ UNCHANGED <<subnets, si, network, idx, responsive_hosts, hi, https_code,
                   rdp_ok, fs_ok, pinged, ping_answer, reports, output, httpsVars>>

\* The prints of one Host Report; the iteration ends.
PrintHost ==
    /\ pc = "print"
    /\ reports' = Append(reports, responsive_hosts[hi + 1])
    /\ hi' = hi + 1
    /\ pc' = "svc"
    /\ FreshLocals
    /\ UNCHANGED <<subnets, si, network, idx, responsive_hosts, pinged,
                   ping_answer, probes, output, exit_status, httpsVars>>

\* `print("\nScan complete.")`; scan_subnet returns.
ScanComplete ==
    /\ pc = "svc"
    /\ hi >= Len(responsive_hosts)
    /\ Say("complete")
    /\ pc' = "main"
    /\ UNCHANGED <<subnets, si, network, idx, responsive_hosts, hi, https_code,
                   rdp_ok, fs_ok, ssh_ok, answers, pinged, ping_answer, probes,
                   reports,
                   exit_status, httpsVars>>

\* The list is exhausted: main returns, the process exits with status 0.
MainReturn ==
    /\ pc = "main"
    /\ si >= Len(subnets)
    /\ pc' = "exit"
    /\ exit_status' = 0
    /\ UNCHANGED <<subnets, si, network, idx, responsive_hosts, hi, https_code,
                   rdp_ok, fs_ok, ssh_ok, answers, pinged, ping_answer, probes,
                   reports,
                   output, httpsVars>>

Next ==
    \/ ScanBegin
    \/ LoopSkipFirst
    \/ LoopProbe
    \/ LoopExhausted
    \/ NoHosts
    \/ ServiceHeader
    \/ CheckHttps
    \/ CheckRdp
    \/ CheckFs
    \/ CheckSsh
    \/ PrintHost
    \/ ScanComplete
    \/ MainReturn

Spec == Init /\ [][Next]_vars

SpecMain == InitMain /\ [][Next]_vars

\* ------------------------------------------------------------------ check_https_status, step by step
\* The responses of the model: start, separator, status token, tail.
\* Starts: "", "HTTP/1", "HTTP".
Starts == {<<>>, <<72, 84, 84, 80, 47, 49>>, <<72, 84, 84, 80>>}

\* Separators: " ", and the bytes of U+00A0 (a space to str.split).
Seps == {<<32>>, <<194, 160>>}

\* The pieces of a status token: "2", "x", 0xFF, which no UTF-8 sequence
\* contains, and the two bytes of U+0662, the Arabic-Indic digit two.
TokPieces == {<<50>>, <<120>>, <<255>>, <<217, 162>>}

\* The tokens of at most n pieces.
RECURSIVE TokensOf(_)
TokensOf(n) ==
    IF n = 0 THEN {<<>>}
    ELSE LET shorter == TokensOf(n - 1)
         IN  shorter \cup {t \o q : t \in shorter, q \in TokPieces}

Tokens == TokensOf(MaxTokLen)

\* Tails: "", "\r\nS", "\r".
Tails == {<<>>, <<13, 10, 83>>, <<13>>}

\* A peer may also send nothing at all.
Responses ==
    {<<>>} \cup {a \o b \o c \o d : a \in Starts, b \in Seps, c \in Tokens, d \in Tails}

\* A peer that refuses, stalls or fails the handshake or the send never
\* delivers a byte; one that accepts delivers a response, in pieces, then
\* closes or stalls.
Sessions ==
    {[IdleSession EXCEPT !.connect = c] : c \in {"refused", "timeout"}}
    \cup {[IdleSession EXCEPT !.handshake = "cert_verify_failed"],
          [IdleSession EXCEPT !.send = "reset"]}
    \cup {[IdleSession EXCEPT !.end = e] : e \in {"close", "timeout"}}

Delivers(sess) ==
    sess.connect = "connected" /\ sess.handshake = "ok" /\ sess.send = "ok"

InitHttps ==
    /\ subnets = <<>>
    /\ si = 0
    /\ pc = "idle"
    /\ network = NoNetwork
    /\ idx = 0
    /\ responsive_hosts = <<>>
    /\ hi = 0
    /\ https_code = None
    /\ rdp_ok = FALSE
    /\ fs_ok = FALSE
    /\ ssh_ok = FALSE
    /\ answers = Unset
    /\ pinged = <<>>
    /\ ping_answer = "none"
    /\ probes = <<>>
    /\ reports = <<>>
    /\ output = <<>>
    /\ exit_status = -1
    /\ hpc = "connect"
    /\ session \in Sessions
    /\ stream \in (IF Delivers(session) THEN Responses ELSE {<<>>})
    /\ data = <<>>
    /\ chunk = <<>>
    /\ nrecv = 0
    /\ exc = "none"
    /\ result = Returned(None)

\* An exception inside the try block: the except clause decides what the
\* caller gets.
Throw(what) ==
    /\ exc' = what
    /\ result' = except_Exception(RaisedStatus)
    /\ hpc' = "done"

\* `socket.create_connection((str(ip), 443), timeout=timeout)`
Connect ==
    /\ hpc = "connect"
    /\ IF session.connect = "connected"
       THEN hpc' = "handshake" /\ UNCHANGED <<exc, result>>
       ELSE Throw(session.connect)
    /\ UNCHANGED <<scanVars, session, stream, data, chunk, nrecv>>

\* `context.wrap_socket(sock, server_hostname=str(ip))`
Handshake ==
    /\ hpc = "handshake"
    /\ IF session.handshake = "ok"
       THEN hpc' = "send" /\ UNCHANGED <<exc, result>>
       ELSE Throw(session.handshake)
    /\ UNCHANGED <<scanVars, session, stream, data, chunk, nrecv>>

\* `ssock.sendall(request...)`, then `data = b""`
Send ==
    /\ hpc = "send"
    /\ IF session.send = "ok"
       THEN hpc' = "recv" /\ data' = <<>> /\ UNCHANGED <<exc, result>>
       ELSE Throw(session.send) /\ UNCHANGED data
    /\ UNCHANGED <<scanVars, session, stream, chunk, nrecv>>

\* `ssock.recv(1024)`
recv_bufsize == 1024

\* `if not chunk: break`
is_eof(c) == c = <<>>

\* The loop test fails: the loop ends.
LoopExit ==
    /\ hpc = "recv"
    /\ ~loop_test(data)
    /\ hpc' = "parse"
    /\ UNCHANGED <<scanVars, session, stream, data, chunk, nrecv, exc, result>>

\* One iteration with bytes to read: recv returns some of them.
Recv ==
    /\ hpc = "recv"
    /\ loop_test(data)
    /\ stream # <<>>
    /\ \E n \in 1..Min(Len(stream), recv_bufsize) :
          /\ n <= MaxChunk \/ n = Min(Len(stream), recv_bufsize)
          /\ chunk' = SubSeq(stream, 1, n)
          /\ stream' = SubSeq(stream, n + 1, Len(stream))
    /\ nrecv' = nrecv + 1
    /\ IF is_eof(chunk')
       THEN hpc' = "parse" /\ UNCHANGED data
       ELSE hpc' = "recv" /\ data' = data \o chunk'
    /\ UNCHANGED <<scanVars, session, exc, result>>

\* One iteration with nothing left to read: recv returns b"" if the peer
\* closed, and times out if it stalls.
RecvEnd ==
    /\ hpc = "recv"
    /\ loop_test(data)
    /\ stream = <<>>
    /\ nrecv' = nrecv + 1
    /\ IF session.end = "close"
       THEN /\ chunk' = <<>>
            /\ hpc' = IF is_eof(chunk') THEN "parse" ELSE "recv"
            /\ UNCHANGED <<exc, result>>
       ELSE Throw("timeout") /\ UNCHANGED chunk
    /\ UNCHANGED <<scanVars, session, stream, data>>

\* Lines 51-58, and the except clause for the ValueError of int().
Parse ==
    /\ hpc = "parse"
    /\ LET r == parse_status(data)
       IN  /\ exc' = IF r.raised THEN "ValueError" ELSE "none"
           /\ result' = except_Exception(r)
    /\ hpc' = "done"
    /\ UNCHANGED <<scanVars, session, stream, data, chunk, nrecv>>

NextHttps ==
    \/ Connect
    \/ Handshake
    \/ Send
    \/ LoopExit
    \/ Recv
    \/ RecvEnd
    \/ Parse

SpecHttps == InitHttps /\ [][NextHttps]_vars

\* ================================================================== claims
Range(q) == {q[i] : i \in 1..Len(q)}

Last(q) == q[Len(q)]

\* scan_subnet is past its sampling loop.
AfterLoop == pc \in {"sampled", "svc", "rdp", "fs", "ssh", "print"}

\* The first usable host address of a network: the network address itself
\* for a /31 and a /32, the address after it otherwise.
FirstUsable(net) ==
    IF net.prefixlen >= 31 THEN net.network_address ELSE net.network_address + 1

\* The candidates of a network: the usable hosts after the first one.
Candidates(net) ==
    IF net.prefixlen = 32 THEN {}
    ELSE IF net.prefixlen = 31 THEN {net.network_address + 1}
    ELSE (net.network_address + 2)..(net.network_address + Pow2(32 - net.prefixlen) - 2)

\* ---- C1
\* C1: when the sampling loop has ended the Responder Set holds at most 3
\* addresses, and if it holds fewer than 3 every candidate of the range has
\* been handed to the liveness prober.
C1_SampleBounded ==
    AfterLoop =>
        /\ Len(responsive_hosts) <= 3
        /\ (Len(responsive_hosts) < 3 => Candidates(network) \subseteq Range(pinged))

\* A scan of a range of five candidates that ended with two responders.
C1_Witness ==
    /\ pc = "sampled"
    /\ Len(responsive_hosts) = 2
    /\ Cardinality(Candidates(network)) >= 5
    /\ Len(pinged) = Cardinality(Candidates(network))

\* ---- C2
\* C2: once the third responder is found no further liveness probe is
\* issued: the last address handed to ping_host is the third responder and
\* no address above it is probed.
C2_StopAtThird ==
    Len(responsive_hosts) >= 3 =>
        /\ Last(pinged) = responsive_hosts[3]
        /\ \A i \in 1..Len(pinged) : pinged[i] <= responsive_hosts[3]

\* The third responder was found with candidates left, and the scan is at
\* the end of its service loop.
C2_Witness ==
    /\ Len(responsive_hosts) = 3
    /\ pc = "svc"
    /\ hi = 3
    /\ \E a \in Candidates(network) : a > responsive_hosts[3]

\* ---- C3
\* C3: for every valid range specification, of any prefix length, the
\* addresses handed to the liveness prober contain neither the network
\* address nor the first usable host address, and are strictly ascending.
C3_CandidatesSkipFirst ==
    /\ \A i \in 1..Len(pinged) :
          /\ pinged[i] # network.network_address
          /\ pinged[i] # FirstUsable(network)
    /\ \A i \in 1..(Len(pinged) - 1) : pinged[i] < pinged[i + 1]

\* A /31 whose second address was probed, its first one skipped.
C3_Witness ==
    /\ network.prefixlen = 31
    /\ pinged = <<network.network_address + 1>>

\* ---- C4
\* The list indices of the lines of the given kinds, in print order.
RECURSIVE Indices(_, _)
Indices(out, kinds) ==
    IF out = <<>> THEN <<>>
    ELSE (IF Head(out).kind \in kinds THEN <<Head(out).i>> ELSE <<>>)
         \o Indices(Tail(out), kinds)

\* C4: a range specification that fails to parse is reported and
\* scan_subnet returns without any liveness or service probe for it; every
\* specification of the list is attempted once, in list order, the valid
\* ones scanned, and the run ends with status 0.
C4_InvalidSkipped ==
    /\ Indices(output, {"error", "scanning"}) = [i \in 1..si |-> i]
    /\ \A k \in 1..Len(output) :
          /\ output[k].kind = "error" => ~ValidSpec(subnets[output[k].i])
          /\ output[k].kind = "scanning" => ValidSpec(subnets[output[k].i])
    /\ (si > 0 /\ ~ValidSpec(subnets[si])) =>
          /\ pc \in {"main", "exit"}
          /\ pinged = <<>>
          /\ probes = <<>>
          /\ reports = <<>>
          /\ Last(output) = [kind |-> "error", i |-> si]
    /\ pc # "traceback"
    /\ pc = "exit" => si = Len(subnets) /\ exit_status = 0
    /\ exit_status \in {-1, 0}

\* A list of an invalid specification followed by a valid one with host bits
\* set: the first was reported, the second scanned and probed, the run ended.
C4_Witness ==
    /\ pc = "exit"
    /\ exit_status = 0
    /\ Len(subnets) = 2
    /\ ~ValidSpec(subnets[1])
    /\ ValidSpec(subnets[2])
    /\ output[1] = [kind |-> "error", i |-> 1]
    /\ output[2] = [kind |-> "scanning", i |-> 2]
    /\ pinged # <<>>

\* ---- C6
\* The ports of the suite, in the order of the checks.
SuitePorts == <<443, 3389, 445, 22>>

\* What each peer of the model makes of the encrypted status probe.
ExpectedHttps(peer) == IF peer = "ok200" THEN Status(200) ELSE None

\* C6: for every sampled host and every combination of failures all four
\* service checks are attempted, on 443, 3389, 445 and 22, and each outcome
\* is decided by the answer to its own check alone; no error propagates out
\* of the suite.
C6_ChecksIndependent ==
    /\ pc # "traceback"
    /\ pc \in {"rdp", "fs", "ssh", "print"} =>
          /\ answers.h # "unset"
          /\ https_code = ExpectedHttps(answers.h)
    /\ pc \in {"fs", "ssh", "print"} =>
          /\ answers.r # "unset"
          /\ rdp_ok = (answers.r = "connected")
    /\ pc \in {"ssh", "print"} =>
          /\ answers.f # "unset"
          /\ fs_ok = (answers.f = "connected")
    /\ pc = "print" =>
          /\ answers.s # "unset"
          /\ ssh_ok = (answers.s = "connected")
          /\ Len(probes) = 4 * (hi + 1)
          /\ SubSeq(probes, 4 * hi + 1, 4 * hi + 4)
                = [j \in 1..4 |-> <<responsive_hosts[hi + 1], SuitePorts[j]>>]

\* A host with all four services closed: absent, false, false, false.
C6_Witness ==
    /\ pc = "print"
    /\ answers = [h |-> "refused", r |-> "refused", f |-> "timeout", s |-> "refused"]
    /\ https_code = None
    /\ ~rdp_ok /\ ~fs_ok /\ ~ssh_ok

\* ---- C7
\* The scan of the current range has returned.
Returned_(kind) == pc \in {"main", "exit"} /\ output # <<>> /\ Last(output).kind = kind

\* C7: with a non-empty Responder Set the service probe suite runs on each
\* member exactly once, in discovery order, with one Host Report per member
\* and none for another address; with an empty one the "no hosts responded"
\* signal is produced and no service probe is issued.
C7_ReportPerResponder ==
    /\ \A j \in 1..Len(probes) :
          /\ ((j - 1) \div 4) + 1 <= Len(responsive_hosts)
          /\ probes[j] = <<responsive_hosts[((j - 1) \div 4) + 1],
                           SuitePorts[((j - 1) % 4) + 1]>>
    /\ Len(reports) <= Len(responsive_hosts)
    /\ reports = SubSeq(responsive_hosts, 1, Len(reports))
    /\ AfterLoop \/ pc = "loop" => ~(\E k \in 1..Len(output) :
                                       output[k].kind \in {"no_hosts", "complete"})
    /\ Returned_("complete") =>
          /\ responsive_hosts # <<>>
          /\ reports = responsive_hosts
          /\ Len(probes) = 4 * Len(responsive_hosts)
    /\ Returned_("no_hosts") =>
          /\ responsive_hosts = <<>>
          /\ probes = <<>>
          /\ reports = <<>>
    /\ (pc \in {"main", "exit"} /\ si > 0 /\ ValidSpec(subnets[si])) =>
          /\ responsive_hosts = <<>> => Returned_("no_hosts")
          /\ responsive_hosts # <<>> => Returned_("complete")

\* 10.0.0.5/30 (the block 10.0.0.4/30): its one candidate, 10.0.0.6, was
\* probed and did not respond; "no hosts responded" and no service probe.
C7_Witness ==
    /\ network = [network_address |-> AddrInt(<<10, 0, 0, 4>>), prefixlen |-> 30]
    /\ pinged = <<AddrInt(<<10, 0, 0, 6>>)>>
    /\ Returned_("no_hosts")
    /\ probes = <<>>

\* ---- C8
\* C8: the liveness prober is invoked on the candidates in ascending order,
\* one after the other and at most once per address; a failed probe counts
\* as "does not respond" and the scan continues at the next address.
C8_OneProbePerAddress ==
    /\ \A i \in 1..Len(pinged), j \in 1..Len(pinged) : i < j => pinged[i] < pinged[j]
    /\ \A i \in 1..Len(pinged) : pinged[i] = network.network_address
                                    + (IF network.prefixlen = 31 THEN 0 ELSE 1) + i
    /\ Range(responsive_hosts) \subseteq Range(pinged)
    /\ (pinged # <<>> /\ ping_answer # "exit0") =>
          /\ Last(pinged) \notin Range(responsive_hosts)
          /\ pc # "traceback"
          /\ exit_status = -1 \/ pc = "exit"
    /\ (pc = "loop" /\ pinged # <<>>) => idx = Len(pinged) + 1

\* Three addresses were probed: the second answered, the ping command could
\* not be started on the third, and the scan is still in its loop.
C8_Witness ==
    /\ pc = "loop"
    /\ Len(pinged) = 3
    /\ ping_answer = "oserror"
    /\ responsive_hosts = <<pinged[2]>>

\* ---- C5
\* check_https_status got as far as parsing what it received.
Parsed == hpc = "done" /\ exc \in {"none", "ValueError"}

\* C5: check_https_status returns None when no bytes were received, when
\* the first line has fewer than 2 tokens, when the first token does not
\* start with "HTTP/", when the second token is not an integer, and on any
\* connection, handshake or timeout exception; it returns the integer value
\* of the second token for every well-formed status line; it never raises.
C5_StatusOrNone ==
    hpc = "done" =>
        /\ ~result.raised
        /\ exc \notin {"none", "ValueError"} => result.value = None
        /\ data = <<>> => result.value = None
        /\ (Parsed /\ data # <<>>) =>
              LET tokens == split(decode_ignore(first_line_bytes(data)))
              IN  IF Len(tokens) < 2 THEN result.value = None
                  ELSE IF ~startswith(tokens[1], HTTP_SLASH) THEN result.value = None
                  ELSE IF ~IsIntLiteral(tokens[2]) THEN result.value = None
                  ELSE result.value = Status(IntValue(tokens[2]))

\* "HTTP/1 222" and the line terminator were received: 222 is returned.
C5_Witness ==
    /\ hpc = "done"
    /\ data = <<72, 84, 84, 80, 47, 49, 32, 50, 50, 50, 13, 10>>
    /\ result = Returned(Status(222))

\* ---- C9
\* The buffer as it was when the latest recv was issued.
BeforeLatestRecv == SubSeq(data, 1, Len(data) - Len(chunk))

\* A recv has returned no data.
SawEof == nrecv > 0 /\ chunk = <<>>

\* C9: no recv is issued once the buffer contains CR LF, also when CR and LF
\* arrive in different chunks; the loop ends at the first empty recv, and
\* only there or at a CR LF; bytes received before a close that carry no
\* line terminator are parsed as the first line.
C9_ReadUntilTerminator ==
    /\ nrecv > 0 => ~Contains(BeforeLatestRecv, CRLF)
    /\ nrecv > 0 => data = BeforeLatestRecv \o chunk
    /\ SawEof => hpc \in {"parse", "done"}
    /\ hpc = "parse" => Contains(data, CRLF) \/ SawEof
    /\ (Parsed /\ SawEof /\ data # <<>>) =>
          LET parts == split(decode_ignore(data))
          IN  result.value =
                 IF /\ Len(parts) >= 2
                    /\ startswith(parts[1], HTTP_SLASH)
                    /\ IsIntLiteral(parts[2])
                 THEN Status(IntValue(parts[2]))
                 ELSE None

\* CR and LF arrived in two chunks; the loop ended at the LF with bytes of
\* the response still unread.
C9_Witness ==
    /\ hpc = "parse"
    /\ chunk = <<10>>
    /\ Last(BeforeLatestRecv) = 13
    /\ stream # <<>>

\* ---- C10
\* A token of decimal digits and replacement characters, with a replacement
\* character between two digits.
DigitsAroundUndecodable(t) ==
    /\ \A i \in 1..Len(t) : IsDigit(t[i]) \/ t[i] = 65533
    /\ \E i \in 2..(Len(t) - 1) :
          t[i] = 65533 /\ IsDigit(t[i - 1]) /\ IsDigit(t[i + 1])

\* The tokens are those of a first line "HTTP/..." followed by a status
\* token that has an undecodable byte between digits.
BrokenStatusToken(tokens) ==
    /\ Len(tokens) >= 2
    /\ startswith(tokens[1], HTTP_SLASH)
    /\ 65533 \notin Range(tokens[1])
    /\ DigitsAroundUndecodable(tokens[2])

\* C10 as claimed: an undecodable byte is replaced, not dropped, so a
\* status token with an undecodable byte between digits yields no status.
C10_UndecodableReplaced ==
    Parsed =>
        LET replaced == split(decode_replace(first_line_bytes(data)))
        IN  BrokenStatusToken(replaced) => result.value = None

\* C10 as the code has it: an undecodable byte is dropped, so a status token
\* with an undecodable byte between digits yields the integer formed by the
\* remaining digits, whenever int() accepts them (at most 4300 digits).
C10_UndecodableDropped ==
    Parsed =>
        LET replaced == split(decode_replace(first_line_bytes(data)))
            remaining == SelectSeq(replaced[2], IsDigit)
        IN  (BrokenStatusToken(replaced) /\ IsIntLiteral(remaining)) =>
               result = Returned(Status(DigitsValue(remaining, 0)))

\* "HTTP/1 2\xff2" was received and 22 returned.
C10_Witness ==
    /\ hpc = "done"
    /\ first_line_bytes(data) = <<72, 84, 84, 80, 47, 49, 32, 50, 255, 50>>
    /\ result = Returned(Status(22))

====
